---- MODULE Spec2Model ----
(***************************************************************************)
(* A model of the jira-api-client library: the pagination helpers          *)
(* (createPaginationParams, createPaginatedResponse, fetchAllPages), the   *)
(* listing operations of the resource clients, transitionIssue, and the    *)
(* error normalisation of the transport base.                              *)
(*                                                                         *)
(* An optional JavaScript value is a sequence of length 0 (undefined) or 1 *)
(* (the value).  A JavaScript object with optional fields is a function    *)
(* whose domain holds the names of the fields that are set.  A string that *)
(* the code builds from parts is the sequence of its parts.                *)
(***************************************************************************)
EXTENDS Integers, Sequences, FiniteSets, TLC

VARIABLES
    \* ---- pagination: one invocation of fetchAllPages or of a listing operation
    pc,                 \* "idle" | "awaiting" | "returned" | "rejected"
    op,                 \* "none" | "fetchAllPages" | "listing"
    source,             \* what fetchPage is: "custom" or the listing operation called
    server,             \* the upstream the listing operation talks to
    callerParams,       \* the params object the caller passed (optional)
    DEFAULT_PAGINATION, \* the module-level default cursor object
    paginationParams,   \* fetchAllPages: the loop's own cursor object
    results,            \* fetchAllPages: the accumulator
    isLast,             \* fetchAllPages: the loop flag
    calls,              \* log: the cursor of every fetchPage call, in call order
    inflight,           \* indices (into calls) of the fetches not yet settled
    upstream,           \* log: the upstream answer behind every settled fetch
    fetched,            \* log: the page every resolved fetch returned, in order
    returned,           \* optional: the value the invocation resolved with
    thrown,             \* optional: the error the invocation rejected with
    failure,            \* optional: the error the failing fetchPage raised
    \* ---- transitionIssue: one invocation
    tpc,                \* "idle" | "getting" | "posting" | "done" | "failed"
    issueIdOrKey,       \* argument
    transitionIdOrName, \* argument
    transitions,        \* optional: the list the GET returned
    requests,           \* log: the HTTP requests issued, in order
    tThrown,            \* optional: the error the invocation rejected with
    \* ---- BaseApiClient.get/post/put/delete: one invocation
    hpc,                \* "idle" | "issued" | "succeeded" | "failed"
    verb,               \* "get" | "post" | "put" | "delete"
    attempts,           \* number of calls made on the axios instance
    rawError,           \* optional: what the axios call rejected with
    hThrown,            \* optional: what the verb method threw
    hValue,             \* optional: what the verb method returned
    \* ---- new JiraClient(config) / JiraClient.fromEnv(): one construction
    cpc,                \* "idle" | "constructed" | "failed"
    variant,            \* which of the two utils/config.ts in the sources is built
    env,                \* process.env: the variables that are set
    configArg,          \* optional: the config object handed to the constructor
    instances,          \* log: the options of every axios.create call, in order
    cThrown,            \* optional: the error the construction threw
    \* ---- one invocation of a public operation of a resource client
    opc,                \* "idle" | "awaiting" | "returned" | "rejected"
    operation,          \* the operation invoked
    oRequests,          \* log: the HTTP calls of the invocation, in order
    \* ---- two fetchAllPages invocations running interleaved
    runs,               \* run id -> the locals of that invocation
    cServer             \* the upstream both invocations page through

pageVars == <<pc, op, source, server, callerParams, DEFAULT_PAGINATION,
              paginationParams, results, isLast, calls, inflight, upstream,
              fetched, returned, thrown, failure>>
transVars == <<tpc, issueIdOrKey, transitionIdOrName, transitions, requests, tThrown>>
httpVars == <<hpc, verb, attempts, rawError, hThrown, hValue>>
cfgVars == <<cpc, variant, env, configArg, instances, cThrown>>
opVars == <<opc, operation, oRequests>>
runVars == <<runs, cServer>>
vars == <<pageVars, transVars, httpVars, cfgVars, opVars, runVars>>

\* ------------------------------------------------------------------ helpers

None == <<>>
Some(v) == <<v>>
IsSome(o) == Len(o) = 1
Get(o) == o[1]

Min(a, b) == IF a <= b THEN a ELSE b
Max(a, b) == IF a >= b THEN a ELSE b

RECURSIVE Concat(_)
\* the concatenation of a sequence of sequences
Concat(ss) == IF Len(ss) = 0 THEN <<>> ELSE Head(ss) \o Concat(Tail(ss))

\* the items of coll at the 0-based indices [from, to)
Slice(coll, from, to) ==
    LET lo == Max(from, 0)
        hi == Min(to, Len(coll))
    IN  IF hi <= lo THEN <<>> ELSE SubSeq(coll, lo + 1, hi)

\* ------------------------------------------------------------------ bounds

\* fetchAllPages has no iteration cap; the model lets one run issue this many fetches
MaxFetches == 3
\* the largest static upstream collection
MaxItems == 4
\* the largest total an arbitrary upstream answer reports
MaxTotal == 3
\* the largest page-size cap of a static upstream
MaxCap == 3

\* ------------------------------------------------------------------ inputs

\* startAt and maxResults as a caller may pass them (none of them is validated)
StartAtInputs == {-1, 0, 1, 2}
MaxResultsInputs == {0, 1, 2, 3}

\* a PaginationParams object: each of the two fields is optional
ParamObject(s, m) ==
    [k \in (IF IsSome(s) THEN {"startAt"} ELSE {}) \cup
           (IF IsSome(m) THEN {"maxResults"} ELSE {}) |->
        IF k = "startAt" THEN Get(s) ELSE Get(m)]

Optional(S) == {None} \cup {Some(v) : v \in S}

\* params?: PaginationParams -- undefined, {} or an object with some fields set
ParamInputs ==
    Optional({ParamObject(s, m) : s \in Optional(StartAtInputs),
                                  m \in Optional(MaxResultsInputs)})

\* the item lists a page may carry: empty, single, repeated and reordered items
PageValues == {<<>>, <<1>>, <<1, 2>>, <<2, 1>>, <<2, 2>>}

ListingOps == {"searchIssues", "getComments", "getAllProjects",
               "searchProjects", "searchUsers", "getAssignableUsers"}
\* the operations whose upstream answer is a bare list
BareListOps == {"getAllProjects", "searchUsers", "getAssignableUsers"}

\* what an upstream may answer to a listing request: the bare-list endpoints
\* answer a list only, /project/search also answers its own isLast, /search and
\* /issue/<key>/comment also answer a startAt and a maxResults of their own
UpstreamAnswers(ep) ==
    IF ep \in BareListOps
    THEN [values : PageValues, total : {0}, isLast : {FALSE}]
    ELSE IF ep = "searchProjects"
    THEN [values : PageValues, total : 0..MaxTotal, isLast : BOOLEAN]
    ELSE [values : PageValues, total : 0..MaxTotal, isLast : {FALSE},
          startAt : {0, 1}, maxResults : {1}]

\* what a caller-written fetchPage may resolve with
CustomPages == [values : PageValues, total : {0, MaxTotal}, isLast : BOOLEAN]

\* an upstream that serves a fixed collection 1..N, at most cap items per page
\* (cap 0: the upstream serves as many items as the request asks for)
StaticServers == [kind : {"static"}, N : 0..MaxItems, cap : 0..MaxCap]
ArbitraryServer == [kind |-> "arbitrary", N |-> 0, cap |-> 0]
NoServer == [kind |-> "none", N |-> 0, cap |-> 0]

Collection(srv) == [i \in 1..srv.N |-> i]

\* the answer of a static upstream to the request cursor c
StaticAnswer(srv, c) ==
    LET size == IF srv.cap = 0 THEN c.maxResults ELSE Min(c.maxResults, srv.cap)
        vals == Slice(Collection(srv), c.startAt, c.startAt + size)
    IN  [values |-> vals, total |-> srv.N,
         isLast |-> c.startAt + Len(vals) >= srv.N,
         startAt |-> c.startAt, maxResults |-> size]

\* ------------------------------------------------------------ utils/error.ts

\* new JiraError(message, status = 500, errors = {}, errorMessages = [])
JiraError(message, status, errors, errorMessages) ==
    [name |-> "JiraError", message |-> message,
     status |-> IF IsSome(status) THEN Get(status) ELSE 500,
     errors |-> IF IsSome(errors) THEN Get(errors) ELSE <<>>,
     errorMessages |-> IF IsSome(errorMessages) THEN Get(errorMessages) ELSE <<>>]

\* faulty variant of OrNumber: the default is always taken
OrNumberDefault(x, dflt) == dflt
\* x || dflt for an optional number: undefined and 0 are falsy
OrNumber(x, dflt) == IF IsSome(x) /\ Get(x) # 0 THEN Get(x) ELSE dflt

\* obj.field || dflt for an optional list-valued field
OrField(obj, field, dflt) == IF field \in DOMAIN obj THEN obj[field] ELSE dflt

\* faulty variant of BodyMessage: the field errors are passed over
BodyMessageNoFields(errorMessages, errors, fallback) ==
    IF Len(errorMessages) > 0 THEN errorMessages[1] ELSE fallback

\* faulty variant of BodyMessage: the last entry of errorMessages is taken
BodyMessageLast(errorMessages, errors, fallback) ==
    IF Len(errorMessages) > 0 THEN errorMessages[Len(errorMessages)]
    ELSE IF Len(errors) > 0 THEN <<errors[1].field, ": ", errors[1].message>>
    ELSE fallback

\* the message chosen from the response body: lines 50-54
BodyMessage(errorMessages, errors, fallback) ==
    IF Len(errorMessages) > 0 THEN errorMessages[1]
    ELSE IF Len(errors) > 0 THEN <<errors[1].field, ": ", errors[1].message>>
    ELSE fallback

handleApiError(error) ==
    IF error.kind = "axios"
    THEN LET status == OrNumber(IF IsSome(error.response)
                                THEN Some(Get(error.response).status) ELSE None, 500)
             data == IF IsSome(error.response) THEN Get(error.response).data ELSE None
         IN  IF IsSome(data)
             THEN LET errorMessages == OrField(Get(data), "errorMessages", <<>>)
                      errors == OrField(Get(data), "errors", <<>>)
                  IN  JiraError(BodyMessage(errorMessages, errors, error.message),
                                Some(status), Some(errors), Some(errorMessages))
             ELSE JiraError(error.message, Some(status), None, None)
    ELSE IF error.kind = "error"
    THEN JiraError(error.message, None, None, None)
    ELSE JiraError(<<"Unknown error occurred">>, None, None, None)

isJiraError(error) == "name" \in DOMAIN error /\ error.name = "JiraError"

\* ------------------------------------------------------- utils/pagination.ts

DefaultPagination == [maxResults |-> 50, startAt |-> 0]

\* params?.field ?? DEFAULT_PAGINATION.field
createPaginationParams(params) ==
    [maxResults |-> IF IsSome(params) /\ "maxResults" \in DOMAIN Get(params)
                    THEN Get(params).maxResults ELSE DEFAULT_PAGINATION.maxResults,
     startAt |-> IF IsSome(params) /\ "startAt" \in DOMAIN Get(params)
                 THEN Get(params).startAt ELSE DEFAULT_PAGINATION.startAt]

\* faulty variant of createPaginatedResponse: a strict comparison
createPaginatedResponseStrict(values, total, params) ==
    [values |-> values, maxResults |-> params.maxResults, startAt |-> params.startAt,
     total |-> total, isLast |-> params.startAt + Len(values) > total]

\* createPaginatedResponse: isLast = startAt + values.length >= total
createPaginatedResponse(values, total, params) ==
    [values |-> values, maxResults |-> params.maxResults, startAt |-> params.startAt,
     total |-> total, isLast |-> params.startAt + Len(values) >= total]

\* faulty variant of Push: items already collected are dropped
PushUnique(acc, values) ==
    acc \o SelectSeq(values, LAMBDA v : \A k \in 1..Len(acc) : acc[k] # v)

\* fetchAllPages line 63: results.push(...response.values)
Push(acc, values) == acc \o values

\* faulty variant of LoopContinues: the loop ignores the flag
LoopAlways(last) == TRUE

\* faulty variant of LoopContinues: the loop also stops after two fetches
LoopCapped(last) == ~last /\ Len(calls) < 2

\* fetchAllPages line 61: while (!isLast)
LoopContinues(last) == ~last

\* faulty variant of NextCursor: the cursor advances by the number of items
\* the page just fetched held
NextCursorByItems(p) ==
    [p EXCEPT !.startAt = p.startAt + Len(fetched'[Len(fetched')].values)]

\* faulty variant of NextCursor: the offset advances one item too far
NextCursorSkips(p) == [p EXCEPT !.startAt = p.startAt + p.maxResults + 1]

\* fetchAllPages line 67: paginationParams.startAt += paginationParams.maxResults
NextCursor(p) == [p EXCEPT !.startAt = p.startAt + p.maxResults]

\* faulty variant of FirstCalls: the second page is requested together with the first
FirstCallsPrefetch(cursor) == <<cursor, NextCursor(cursor)>>

\* fetchAllPages line 62: the fetchPage calls made before the first await returns
FirstCalls(cursor) == <<cursor>>

\* faulty variant of OnFetchRejected: the failure is caught and the pages so far returned
OnFetchRejectedPartial(err, acc) == [thrown |-> None, returned |-> Some(acc)]

\* fetchAllPages has no try/catch: a rejected fetchPage rejects the whole call
OnFetchRejected(err, acc) == [thrown |-> Some(err), returned |-> None]

\* ------------------------------------------------------- the listing operations

\* faulty variant of searchIssues: the page takes the cursor the upstream answered
searchIssuesEcho(answer, pagination) ==
    createPaginatedResponse(answer.values, answer.total,
                            [startAt |-> answer.startAt, maxResults |-> answer.maxResults])

\* IssuesApiClient.searchIssues: response reshaped from {issues, total, ...}
searchIssues(answer, pagination) ==
    createPaginatedResponse(answer.values, answer.total, createPaginationParams(pagination))

\* IssuesApiClient.getComments: response reshaped from {comments, total, ...}
getComments(answer, pagination) ==
    createPaginatedResponse(answer.values, answer.total, createPaginationParams(pagination))

\* faulty variant of getAllProjects: the total is the upstream's collection size
getAllProjectsCounted(answer, pagination) ==
    createPaginatedResponse(answer.values, answer.total, createPaginationParams(pagination))

\* ProjectsApiClient.getAllProjects: the upstream answers a bare list
getAllProjects(answer, pagination) ==
    createPaginatedResponse(answer.values, Len(answer.values),
                            createPaginationParams(pagination))

\* ProjectsApiClient.searchProjects: isLast copied from the upstream answer
searchProjects(answer, pagination) ==
    LET params == createPaginationParams(pagination)
    IN  [values |-> answer.values, total |-> answer.total,
         startAt |-> params.startAt, maxResults |-> params.maxResults,
         isLast |-> answer.isLast]

\* UsersApiClient.searchUsers: the upstream answers a bare list
searchUsers(answer, pagination) ==
    createPaginatedResponse(answer.values, Len(answer.values),
                            createPaginationParams(pagination))

\* UsersApiClient.getAssignableUsers: the upstream answers a bare list
getAssignableUsers(answer, pagination) ==
    createPaginatedResponse(answer.values, Len(answer.values),
                            createPaginationParams(pagination))

\* the page operation ep returns for an upstream answer
ListingResponse(ep, answer, pagination) ==
    CASE ep = "searchIssues" -> searchIssues(answer, pagination)
      [] ep = "getComments" -> getComments(answer, pagination)
      [] ep = "getAllProjects" -> getAllProjects(answer, pagination)
      [] ep = "searchProjects" -> searchProjects(answer, pagination)
      [] ep = "searchUsers" -> searchUsers(answer, pagination)
      [] ep = "getAssignableUsers" -> getAssignableUsers(answer, pagination)

\* the cursor a listing operation sends upstream (startAt, maxResults of the request)
ListingRequest(pagination) == createPaginationParams(pagination)

\* ------------------------------------------------------------ transport failures

\* what the axios instance may reject with
StatusInputs == {400, 404}
FieldError(f, m) == [field |-> f, message |-> m]
FieldErrorInputs ==
    { <<>>,
      << FieldError("summary", "required") >>,
      << FieldError("project", "invalid"), FieldError("summary", "required") >> }
ErrorMessagesInputs ==
    { <<>>,
      << <<"Issue does not exist">> >>,
      << <<"Field is required">>, <<"Issue does not exist">> >> }

\* a response body: errorMessages and errors are each optional
BodyObject(ms, es) ==
    [k \in (IF IsSome(ms) THEN {"errorMessages"} ELSE {}) \cup
           (IF IsSome(es) THEN {"errors"} ELSE {}) |->
        IF k = "errorMessages" THEN Get(ms) ELSE Get(es)]

BodyInputs == {BodyObject(ms, es) : ms \in Optional(ErrorMessagesInputs),
                                    es \in Optional(FieldErrorInputs)}

AxiosErrors ==
    [kind : {"axios"}, message : {<<"Request failed">>, <<"timeout exceeded">>},
     response : Optional([status : StatusInputs, data : Optional(BodyInputs)])]

GenericErrors ==
    [kind : {"error"}, message : {<<"boom">>, <<"socket hang up">>}, response : {None}]

\* a thrown value that is not an Error
OtherErrors == [kind : {"other"}, message : {<<>>}, response : {None}]

RawErrors == AxiosErrors \cup GenericErrors \cup OtherErrors

\* the failures a run of fetchAllPages meets: one of each kind
PageFailures ==
    {[kind |-> "axios", message |-> <<"Request failed">>,
      response |-> Some([status |-> 404,
                         data |-> Some(BodyObject(Some(<< <<"Issue does not exist">> >>),
                                                  Some(<<>>)))])],
     [kind |-> "axios", message |-> <<"timeout exceeded">>, response |-> None],
     [kind |-> "error", message |-> <<"boom">>, response |-> None]}

\* the two utils/config.ts the sources hold: {baseUrl, token} and
\* {baseUrl, email, apiToken}
ConfigVariants == {"token", "emailApiToken"}

\* the two invocations that run interleaved
RunIds == {1, 2}

\* an invocation of fetchAllPages that has not been made yet
IdleRun == [pc |-> "idle", params |-> None, cursor |-> DefaultPagination,
            results |-> <<>>, calls |-> <<>>, fetched |-> <<>>, returned |-> None]

\* --------------------------------------------------------------------- Init

Init ==
    /\ pc = "idle"
    /\ op = "none"
    /\ source = "none"
    /\ server = NoServer
    /\ callerParams = None
    /\ DEFAULT_PAGINATION = DefaultPagination
    /\ paginationParams = DefaultPagination
    /\ results = <<>>
    /\ isLast = FALSE
    /\ calls = <<>>
    /\ inflight = {}
    /\ upstream = <<>>
    /\ fetched = <<>>
    /\ returned = None
    /\ thrown = None
    /\ failure = None
    /\ tpc = "idle"
    /\ issueIdOrKey = ""
    /\ transitionIdOrName = ""
    /\ transitions = None
    /\ requests = <<>>
    /\ tThrown = None
    /\ hpc = "idle"
    /\ verb = "none"
    /\ attempts = 0
    /\ rawError = None
    /\ hThrown = None
    /\ hValue = None
    /\ cpc = "idle"
    /\ variant = "none"
    /\ env = <<>>
    /\ configArg = None
    /\ instances = <<>>
    /\ cThrown = None
    /\ opc = "idle"
    /\ operation = "none"
    /\ oRequests = <<>>
    /\ runs = [r \in RunIds |-> IdleRun]
    /\ cServer = NoServer

\* ------------------------------------------------------------- fetchAllPages

\* faulty variant of CursorObject: complete params are handed back as they are
CursorObjectCaller(params) ==
    IF IsSome(params) /\ DOMAIN Get(params) = {"startAt", "maxResults"} THEN "params"
    ELSE "fresh"
\* faulty variant of CursorObject: without params the default object itself is
\* handed out
CursorObjectShared(params) == IF IsSome(params) THEN "fresh" ELSE "default"
\* the object createPaginationParams returns: an object literal, so a new
\* object on every call, never DEFAULT_PAGINATION and never the caller's params
CursorObject(params) == "fresh"

\* paginationParams.startAt += ... writes into the object paginationParams
\* refers to: what DEFAULT_PAGINATION holds after the write
WriteThrough(object, cursor) ==
    IF object = "default" THEN cursor ELSE DEFAULT_PAGINATION

\* the same write, seen from the caller: what the caller's params object holds
\* after it
WriteParams(object, cursor) ==
    IF object = "params" THEN Some(cursor) ELSE callerParams

\* fetchAllPages(fetchPage, params) up to its first await: lines 57-62
StartFetchAll(src, srv, params) ==
    /\ pc = "idle"
    /\ LET cursor == createPaginationParams(params)
           first == FirstCalls(cursor)
       IN  /\ paginationParams' = cursor
           /\ results' = <<>>
           /\ isLast' = FALSE
           /\ calls' = first
           /\ inflight' = 1..Len(first)
    /\ pc' = "awaiting"
    /\ op' = "fetchAllPages"
    /\ source' = src
    /\ server' = srv
    /\ callerParams' = params
    /\ UNCHANGED <<DEFAULT_PAGINATION, upstream, fetched, returned, thrown, failure>>
    /\ UNCHANGED <<transVars, httpVars, cfgVars, opVars, runVars>>

\* fetchAllPages over a fetchPage the caller wrote
StartCustom ==
    /\ pc = "idle"
    /\ \E params \in ParamInputs : StartFetchAll("custom", NoServer, params)

\* fetchAllPages over a listing operation, as in the README:
\* fetchAllPages(params => client.op(..., params), params)
StartOverListing ==
    /\ pc = "idle"
    /\ \E ep \in ListingOps, srv \in StaticServers, params \in ParamInputs :
        /\ createPaginationParams(params).startAt >= 0
        /\ StartFetchAll(ep, srv, params)

\* the page fetch i resolves with, for the answer the source gives
PageOf(i, answer) ==
    IF source = "custom"
    THEN [values |-> answer.values, maxResults |-> calls[i].maxResults,
          startAt |-> calls[i].startAt, total |-> answer.total,
          isLast |-> answer.isLast]
    ELSE ListingResponse(source, answer, Some(calls[i]))

\* the answers the source may give to fetch i
AnswersTo(i) ==
    IF source = "custom" THEN CustomPages
    ELSE IF server.kind = "static" THEN {StaticAnswer(server, ListingRequest(Some(calls[i])))}
    ELSE UpstreamAnswers(source)

\* the await of line 62 resolves: lines 63-69, then the loop test and either the
\* next fetchPage call (line 62) or the return (line 71)
PageResolves ==
    /\ pc = "awaiting"
    /\ op = "fetchAllPages"
    /\ \E i \in inflight : \E answer \in AnswersTo(i) :
        LET response == PageOf(i, answer)
            acc == Push(results, response.values)
            cursor == IF ~response.isLast THEN NextCursor(paginationParams)
                      ELSE paginationParams
        IN  /\ results' = acc
            /\ isLast' = response.isLast
            /\ upstream' = Append(upstream, answer)
            /\ fetched' = Append(fetched, response)
            /\ paginationParams' = cursor
            /\ IF LoopContinues(response.isLast)
               THEN /\ Len(calls) < MaxFetches
                    /\ calls' = Append(calls, cursor)
                    /\ inflight' = (inflight \ {i}) \cup {Len(calls) + 1}
                    /\ pc' = "awaiting"
                    /\ returned' = returned
               ELSE /\ calls' = calls
                    /\ inflight' = inflight \ {i}
                    /\ pc' = "returned"
                    /\ returned' = Some(acc)
            /\ DEFAULT_PAGINATION' = WriteThrough(CursorObject(callerParams), cursor)
            /\ callerParams' = WriteParams(CursorObject(callerParams), cursor)
    /\ UNCHANGED <<op, source, server, thrown, failure>>
    /\ UNCHANGED <<transVars, httpVars, cfgVars, opVars, runVars>>

\* what a failing fetchPage raises: a listing operation raises the normalised error
FetchErrors ==
    IF source = "custom" THEN PageFailures ELSE {handleApiError(e) : e \in PageFailures}

\* the await of line 62 rejects
PageRejects ==
    /\ pc = "awaiting"
    /\ op = "fetchAllPages"
    /\ \E i \in inflight : \E err \in FetchErrors :
        LET out == OnFetchRejected(err, results)
        IN  /\ failure' = Some(err)
            /\ inflight' = inflight \ {i}
            /\ thrown' = out.thrown
            /\ returned' = out.returned
            /\ pc' = IF IsSome(out.thrown) THEN "rejected" ELSE "returned"
    /\ UNCHANGED <<op, source, server, callerParams, DEFAULT_PAGINATION, paginationParams,
                   results, isLast, calls, upstream, fetched>>
    /\ UNCHANGED <<transVars, httpVars, cfgVars, opVars, runVars>>

\* ------------------------------------------- a listing operation called directly

\* client.op(..., pagination) up to its await: the request is sent
CallListing ==
    /\ pc = "idle"
    /\ \E ep \in ListingOps, params \in ParamInputs :
        /\ source' = ep
        /\ callerParams' = params
        /\ calls' = <<ListingRequest(params)>>
    /\ inflight' = {1}
    /\ pc' = "awaiting"
    /\ op' = "listing"
    /\ server' = ArbitraryServer
    /\ UNCHANGED <<DEFAULT_PAGINATION, paginationParams, results, isLast, upstream,
                   fetched, returned, thrown, failure>>
    /\ UNCHANGED <<transVars, httpVars, cfgVars, opVars, runVars>>

\* the request succeeds: the operation returns the reshaped page
ListingResolves ==
    /\ pc = "awaiting"
    /\ op = "listing"
    /\ \E answer \in UpstreamAnswers(source) :
        LET response == ListingResponse(source, answer, callerParams)
        IN  /\ upstream' = <<answer>>
            /\ fetched' = <<response>>
            /\ returned' = Some(response)
    /\ inflight' = {}
    /\ pc' = "returned"
    /\ UNCHANGED <<op, source, server, callerParams, DEFAULT_PAGINATION, paginationParams,
                   results, isLast, calls, thrown, failure>>
    /\ UNCHANGED <<transVars, httpVars, cfgVars, opVars, runVars>>

\* the request fails: BaseApiClient.get/post throw the normalised error
ListingRejects ==
    /\ pc = "awaiting"
    /\ op = "listing"
    /\ \E e \in PageFailures :
        /\ failure' = Some(handleApiError(e))
        /\ thrown' = Some(handleApiError(e))
    /\ inflight' = {}
    /\ pc' = "rejected"
    /\ UNCHANGED <<op, source, server, callerParams, DEFAULT_PAGINATION, paginationParams,
                   results, isLast, calls, upstream, fetched, returned>>
    /\ UNCHANGED <<transVars, httpVars, cfgVars, opVars, runVars>>

\* the invocation is over and its locals are gone; the caller may invoke again.
\* Only the module-level DEFAULT_PAGINATION lives on
NextInvocation ==
    /\ pc \in {"returned", "rejected"}
    /\ pc' = "idle"
    /\ op' = "none"
    /\ source' = "none"
    /\ server' = NoServer
    /\ callerParams' = None
    /\ paginationParams' = DefaultPagination
    /\ results' = <<>>
    /\ isLast' = FALSE
    /\ calls' = <<>>
    /\ inflight' = {}
    /\ upstream' = <<>>
    /\ fetched' = <<>>
    /\ returned' = None
    /\ thrown' = None
    /\ failure' = None
    /\ UNCHANGED DEFAULT_PAGINATION
    /\ UNCHANGED <<transVars, httpVars, cfgVars, opVars, runVars>>

Next ==
    \/ StartCustom
    \/ StartOverListing
    \/ PageResolves
    \/ PageRejects
    \/ CallListing
    \/ ListingResolves
    \/ ListingRejects
    \/ NextInvocation

Spec == Init /\ [][Next]_vars

\* ------------------------------------------------------------ pagination claims

IsFetchAll == op = "fetchAllPages"
FetchedValues == [i \in 1..Len(fetched) |-> fetched[i].values]
SomePageIsLast == \E i \in 1..Len(fetched) : fetched[i].isLast

\* C1: every page a listing operation returns for a non-negative cursor has
\* isLast = (startAt + values.length >= total)
C1_IsLastDerived ==
    source \in ListingOps =>
        \A i \in 1..Len(fetched) :
            calls[i].startAt >= 0 =>
                fetched[i].isLast =
                    (fetched[i].startAt + Len(fetched[i].values) >= fetched[i].total)

\* C2: fetchAllPages returns the concatenation of the values of the pages it
\* fetched, in fetch order, nothing dropped, reordered or deduplicated
C2_Concatenation ==
    (IsFetchAll /\ pc = "returned") => returned = Some(Concat(FetchedValues))

C2_Witness ==
    /\ IsFetchAll /\ pc = "returned"
    /\ Len(fetched) = 3
    /\ fetched[1].values = <<1, 2>> /\ fetched[2].values = <<2, 1>>
    /\ fetched[3].values = <<1>>

\* C3: the page reporting isLast = true is the last one fetched: the number of
\* fetchPage calls is its index, nothing is in flight and the call has returned
C3_StopsAtFirstLast ==
    IsFetchAll =>
        \A i \in 1..Len(fetched) :
            fetched[i].isLast => (Len(calls) = i /\ inflight = {} /\ pc = "returned")

C3_Witness ==
    /\ IsFetchAll /\ pc = "returned"
    /\ Len(fetched) = 1 /\ fetched[1].isLast /\ Len(calls) = 1

\* the upstream serves exactly the items [startAt, min(startAt + maxResults, N))
WellBehaved ==
    /\ server.kind = "static"
    /\ (server.cap = 0 \/ server.cap >= calls[1].maxResults)

\* C4: over searchIssues against a static collection of N items served in full
\* pages, with maxResults >= 1 and startAt s <= N, fetchAllPages returns the
\* items s .. N-1 once each, in order
C4_StaticCollection ==
    (/\ IsFetchAll /\ source = "searchIssues" /\ pc = "returned"
     /\ WellBehaved
     /\ calls[1].maxResults >= 1
     /\ calls[1].startAt <= server.N)
        => returned = Some(Slice(Collection(server), calls[1].startAt, server.N))

C4_Witness ==
    /\ IsFetchAll /\ source = "searchIssues" /\ pc = "returned" /\ WellBehaved
    /\ server.N = 4 /\ calls[1].startAt = 1 /\ calls[1].maxResults = 2
    /\ Len(fetched) = 2
    /\ returned = Some(<<2, 3, 4>>)

\* C5: fetchAllPages returns exactly when a fetched page reports isLast = true;
\* until then (no fetch having failed) a fetch is in flight, however many pages
\* have been fetched
C5_TerminatesOnIsLastOnly ==
    (IsFetchAll /\ ~IsSome(failure)) =>
        /\ (pc = "returned") <=> SomePageIsLast
        /\ (~SomePageIsLast) =>
              (pc = "awaiting" /\ inflight # {} /\ Len(calls) = Len(fetched) + 1)

C5_Witness ==
    /\ IsFetchAll /\ pc = "awaiting" /\ inflight # {}
    /\ Len(fetched) >= 2 /\ ~SomePageIsLast

\* C6: a failing fetchPage rejects fetchAllPages with that failure; nothing is
\* returned, and the failing call is the last fetchPage call
C6_FailureAborts ==
    (IsFetchAll /\ IsSome(failure)) =>
        /\ pc = "rejected"
        /\ thrown = failure
        /\ returned = None
        /\ inflight = {}
        /\ Len(calls) = Len(fetched) + 1

C6_Witness ==
    /\ IsFetchAll /\ pc = "rejected" /\ IsSome(failure)
    /\ Len(fetched) = 2 /\ Len(results) > 0

\* C7: at most one page fetch is in flight, and call k+1 is issued only after
\* call k has resolved
C7_Sequential ==
    IsFetchAll =>
        /\ Cardinality(inflight) <= 1
        /\ Len(calls) <= Len(fetched) + 1

C7_Witness ==
    /\ IsFetchAll /\ pc = "awaiting"
    /\ Len(calls) = 3 /\ Len(fetched) = 2 /\ inflight = {3}

\* ----------------------------------------------- BaseApiClient.get/post/put/delete

Verbs == {"get", "post", "put", "delete"}
\* what a successful call answers (response.data)
DataInputs == {"data1", "data2"}

\* this.get / this.post / this.put / this.delete up to the await:
\* one call on the axios instance
CallVerb ==
    /\ hpc = "idle"
    /\ \E v \in Verbs : verb' = v
    /\ attempts' = attempts + 1
    /\ hpc' = "issued"
    /\ UNCHANGED <<rawError, hThrown, hValue>>
    /\ UNCHANGED <<pageVars, transVars, cfgVars, opVars, runVars>>

\* the axios call resolves: return response.data
VerbResolves ==
    /\ hpc = "issued"
    /\ \E d \in DataInputs : hValue' = Some(d)
    /\ hpc' = "succeeded"
    /\ UNCHANGED <<verb, attempts, rawError, hThrown>>
    /\ UNCHANGED <<pageVars, transVars, cfgVars, opVars, runVars>>

\* faulty variant of Rethrow: the caught error is thrown on as it is
RethrowRaw(error) == error

\* the catch block of get/post/put/delete: throw handleApiError(error)
Rethrow(error) == handleApiError(error)

\* faulty variant of OnRejected: the call is issued once more after a failure
OnRejectedRetry(n) ==
    IF n < 2 THEN [hpc |-> "issued", attempts |-> n + 1]
    ELSE [hpc |-> "failed", attempts |-> n]
\* where the catch block leaves the call: it throws, and calls the axios
\* instance no further time
OnRejected(n) == [hpc |-> "failed", attempts |-> n]

\* the axios call rejects: catch (error) { throw handleApiError(error) }
VerbRejects ==
    /\ hpc = "issued"
    /\ \E e \in RawErrors :
        /\ rawError' = Some(e)
        /\ hThrown' = Some(Rethrow(e))
    /\ hpc' = OnRejected(attempts).hpc
    /\ attempts' = OnRejected(attempts).attempts
    /\ UNCHANGED <<verb, hValue>>
    /\ UNCHANGED <<pageVars, transVars, cfgVars, opVars, runVars>>

NextHttp ==
    \/ CallVerb
    \/ VerbResolves
    \/ VerbRejects

SpecHttp == Init /\ [][NextHttp]_vars

\* --------------------------------------------- IssuesApiClient.transitionIssue

\* the longest transition list the GET answers
MaxTransitions == 2
\* the operations invoked on one constructed client
MaxCalls == 2

IssueKeys == {"TEST-1", "TEST-2"}
\* ids and names of transitions; one name reads like an id
TransitionInputs ==
    [id : {"10000", "10001"}, name : {"To Do", "In Progress", "10001"}]
\* what the caller passes as transitionIdOrName
IdOrNameInputs == {"10000", "10001", "In Progress", "in progress", "Done"}

TransitionLists ==
    UNION {[1..n -> TransitionInputs] : n \in 0..MaxTransitions}

\* faulty variant of Matches: any transition is taken
MatchesAny(t, x) == TRUE

\* the predicate of transitions.find: t.id === x || t.name === x
Matches(t, x) == t.id = x \/ t.name = x

\* transitions.find(...): the index of the first match, 0 when there is none
FindTransition(list, x) ==
    IF \E i \in 1..Len(list) : Matches(list[i], x)
    THEN CHOOSE i \in 1..Len(list) :
            /\ Matches(list[i], x)
            /\ \A j \in 1..(i - 1) : ~Matches(list[j], x)
    ELSE 0

\* new Error(`Transition "${transitionIdOrName}" not found for issue ${issueIdOrKey}`)
NotFoundError(x, key) ==
    [name |-> "Error",
     message |-> <<"Transition \"", x, "\" not found for issue ", key>>]

TransitionsUrl(key) == <<"/issue/", key, "/transitions">>

\* transitionIssue up to the await in getTransitions: the GET is sent
CallTransitionIssue ==
    /\ tpc = "idle"
    /\ \E key \in IssueKeys, x \in IdOrNameInputs :
        /\ issueIdOrKey' = key
        /\ transitionIdOrName' = x
        /\ requests' = <<[method |-> "GET", url |-> TransitionsUrl(key), body |-> None]>>
    /\ tpc' = "getting"
    /\ UNCHANGED <<transitions, tThrown>>
    /\ UNCHANGED <<pageVars, httpVars, cfgVars, opVars, runVars>>

\* the GET resolves: find the transition, then throw or send the POST
GetResolves ==
    /\ tpc = "getting"
    /\ \E list \in TransitionLists :
        LET k == FindTransition(list, transitionIdOrName)
        IN  /\ transitions' = Some(list)
            /\ IF k = 0
               THEN /\ tThrown' = Some(NotFoundError(transitionIdOrName, issueIdOrKey))
                    /\ requests' = requests
                    /\ tpc' = "failed"
               ELSE /\ tThrown' = tThrown
                    /\ requests' = Append(requests,
                                          [method |-> "POST",
                                           url |-> TransitionsUrl(issueIdOrKey),
                                           body |-> Some(list[k].id)])
                    /\ tpc' = "posting"
    /\ UNCHANGED <<issueIdOrKey, transitionIdOrName>>
    /\ UNCHANGED <<pageVars, httpVars, cfgVars, opVars, runVars>>

\* the GET rejects: this.get throws the normalised error
GetRejects ==
    /\ tpc = "getting"
    /\ \E e \in PageFailures : tThrown' = Some(handleApiError(e))
    /\ tpc' = "failed"
    /\ UNCHANGED <<issueIdOrKey, transitionIdOrName, transitions, requests>>
    /\ UNCHANGED <<pageVars, httpVars, cfgVars, opVars, runVars>>

\* the POST resolves
PostResolves ==
    /\ tpc = "posting"
    /\ tpc' = "done"
    /\ UNCHANGED <<issueIdOrKey, transitionIdOrName, transitions, requests, tThrown>>
    /\ UNCHANGED <<pageVars, httpVars, cfgVars, opVars, runVars>>

\* the POST rejects: this.post throws the normalised error
PostRejects ==
    /\ tpc = "posting"
    /\ \E e \in PageFailures : tThrown' = Some(handleApiError(e))
    /\ tpc' = "failed"
    /\ UNCHANGED <<issueIdOrKey, transitionIdOrName, transitions, requests>>
    /\ UNCHANGED <<pageVars, httpVars, cfgVars, opVars, runVars>>

NextTransition ==
    \/ CallTransitionIssue
    \/ GetResolves
    \/ GetRejects
    \/ PostResolves
    \/ PostRejects

SpecTransition == Init /\ [][NextTransition]_vars

\* ------------------------------------------------------------ transition claims

Posts == SelectSeq(requests, LAMBDA r : r.method = "POST")
IdMatches(list, x) == {i \in 1..Len(list) : list[i].id = x}
NameMatches(list, x) == {i \in 1..Len(list) : list[i].name = x}
Least(S) == CHOOSE i \in S : \A j \in S : i <= j

\* the entry the id-before-name rule selects: the first whose id is x, and only
\* if there is none the first whose name is x (0: no entry)
IdThenName(list, x) ==
    IF IdMatches(list, x) # {} THEN Least(IdMatches(list, x))
    ELSE IF NameMatches(list, x) # {} THEN Least(NameMatches(list, x))
    ELSE 0

\* C8: the POST carries the id of the first entry whose id equals the input,
\* or, when no id equals it, of the first entry whose name equals it
C8_IdBeforeName ==
    (IsSome(transitions) /\ Len(Posts) > 0) =>
        LET list == Get(transitions)
            k == IdThenName(list, transitionIdOrName)
        IN  k # 0 /\ Posts[1].body = Some(list[k].id)

\* C9: when no transition has the input as id or name, transitionIssue fails
\* with Transition "<input>" not found for issue <key>, and sends no POST
C9_NotFound ==
    (/\ IsSome(transitions)
     /\ IdMatches(Get(transitions), transitionIdOrName) = {}
     /\ NameMatches(Get(transitions), transitionIdOrName) = {})
        => /\ tpc = "failed"
           /\ IsSome(tThrown)
           /\ Get(tThrown).message =
                 <<"Transition \"", transitionIdOrName, "\" not found for issue ",
                   issueIdOrKey>>
           /\ Len(Posts) = 0
           /\ Len(requests) = 1

C9_Witness ==
    /\ tpc = "failed"
    /\ transitionIdOrName = "Done" /\ issueIdOrKey = "TEST-1"
    /\ IsSome(transitions) /\ Len(Get(transitions)) = 2
    /\ Get(transitions)[2].name = "In Progress"
    /\ Len(Posts) = 0

\* ----------------------------------------------------------------- error claims

HasBody ==
    /\ hpc = "failed" /\ IsSome(rawError)
    /\ Get(rawError).kind = "axios"
    /\ IsSome(Get(rawError).response)
    /\ IsSome(Get(Get(rawError).response).data)
Response == Get(Get(rawError).response)
Body == Get(Response.data)

\* C10: a failure whose body has a non-empty errorMessages list is thrown as a
\* JiraError with message = the first entry, errorMessages = the list, errors =
\* the body's field errors and status = the response status
C10_ErrorMessagesFirst ==
    (HasBody /\ "errorMessages" \in DOMAIN Body /\ Len(Body.errorMessages) > 0) =>
        /\ IsSome(hThrown)
        /\ Get(hThrown).name = "JiraError"
        /\ Get(hThrown).message = Body.errorMessages[1]
        /\ Get(hThrown).errorMessages = Body.errorMessages
        /\ Get(hThrown).errors = (IF "errors" \in DOMAIN Body THEN Body.errors ELSE <<>>)
        /\ Get(hThrown).status = Response.status

C10_Witness ==
    /\ HasBody
    /\ Response.status = 404
    /\ Body = BodyObject(Some(<< <<"Issue does not exist">> >>), Some(<<>>))
    /\ hThrown = Some([name |-> "JiraError", message |-> <<"Issue does not exist">>,
                       status |-> 404, errors |-> <<>>,
                       errorMessages |-> << <<"Issue does not exist">> >>])

\* C11: whatever the axios call rejects with, get/post/put/delete throw a
\* JiraError, built in full by handleApiError, and never the raw error
C11_NormalizationTotal ==
    hpc = "failed" =>
        /\ IsSome(rawError) /\ IsSome(hThrown)
        /\ isJiraError(Get(hThrown))
        /\ hThrown # rawError
        /\ DOMAIN Get(hThrown) = {"name", "message", "status", "errors", "errorMessages"}
        /\ Get(hThrown).status \in Int
        /\ Len(Get(hThrown).message) > 0

C11_Witness ==
    /\ hpc = "failed"
    /\ Get(rawError).kind = "other"
    /\ isJiraError(Get(hThrown))
    /\ Get(hThrown).message = <<"Unknown error occurred">>
    /\ Get(hThrown).status = 500


\* ------------------------------------------------- utils/config.ts, construction

\* the sources hold two versions of utils/config.ts: "token" reads JIRA_TOKEN
\* and keeps baseUrl/token, "emailApiToken" reads JIRA_EMAIL and JIRA_API_TOKEN
\* and keeps baseUrl/email/apiToken; a build holds one of them

DEFAULT_CONFIG == [apiVersion |-> 3, timeout |-> 30000]

EnvNames ==
    {"JIRA_BASE_URL", "JIRA_TOKEN", "JIRA_EMAIL", "JIRA_API_TOKEN",
     "JIRA_API_VERSION", "JIRA_REQUEST_TIMEOUT"}

\* the values a variable of process.env may hold when it is set
EnvValues(n) ==
    CASE n = "JIRA_BASE_URL" -> {"", "https://jira.example"}
      [] n = "JIRA_TOKEN" -> {"", "tok"}
      [] n = "JIRA_EMAIL" -> {"", "me@x.io"}
      [] n = "JIRA_API_TOKEN" -> {"", "apitok"}
      [] n = "JIRA_API_VERSION" -> {"", "2", "12px"}
      [] n = "JIRA_REQUEST_TIMEOUT" -> {"", "5000"}

\* process.env: a variable is unset, or set to one of its values
EnvInputs ==
    {[n \in {m \in EnvNames : IsSome(set[m])} |-> Get(set[n])] :
        set \in {[JIRA_BASE_URL |-> b, JIRA_TOKEN |-> t, JIRA_EMAIL |-> m,
                  JIRA_API_TOKEN |-> a, JIRA_API_VERSION |-> n, JIRA_REQUEST_TIMEOUT |-> d] :
                    b \in Optional(EnvValues("JIRA_BASE_URL")),
                    t \in Optional(EnvValues("JIRA_TOKEN")),
                    m \in Optional(EnvValues("JIRA_EMAIL")),
                    a \in Optional(EnvValues("JIRA_API_TOKEN")),
                    n \in Optional(EnvValues("JIRA_API_VERSION")),
                    d \in Optional(EnvValues("JIRA_REQUEST_TIMEOUT"))}}

\* process.env.NAME
EnvVar(e, n) == IF n \in DOMAIN e THEN Some(e[n]) ELSE None

\* truthiness of an optional string: undefined and '' are falsy
Truthy(x) == IsSome(x) /\ Get(x) # ""

\* parseInt(s, 10) on the numeric strings of EnvValues: the leading digits
parseInt(s) ==
    CASE s = "2" -> 2
      [] s = "12px" -> 12
      [] s = "5000" -> 5000

\* an object literal { f: value, ... }: a field whose value is undefined reads
\* as undefined, like a field that is not set
ObjectOf(fields) ==
    [f \in {g \in DOMAIN fields : IsSome(fields[g])} |-> Get(fields[f])]

\* config.f
Field(c, f) == IF f \in DOMAIN c THEN Some(c[f]) ELSE None

ConfigError(n) ==
    [name |-> "Error", message |-> <<n, " environment variable is required">>]

\* process.env.NAME ? parseInt(process.env.NAME, 10) : DEFAULT_CONFIG.field
EnvNumber(e, n, dflt) ==
    IF Truthy(EnvVar(e, n)) THEN parseInt(e[n]) ELSE dflt

\* the variables createConfigFromEnv requires, in the order it tests them
Required(v) ==
    IF v = "token" THEN <<"JIRA_BASE_URL", "JIRA_TOKEN">>
    ELSE <<"JIRA_BASE_URL", "JIRA_EMAIL", "JIRA_API_TOKEN">>

MissingAt(v, e) == {i \in 1..Len(Required(v)) : ~Truthy(EnvVar(e, Required(v)[i]))}

\* the first test of createConfigFromEnv that fails
FirstMissing(v, e) == CHOOSE i \in MissingAt(v, e) : \A j \in MissingAt(v, e) : i <= j

\* faulty variant of EnvThrows: absent variables are not reported
EnvThrowsNever(v, e) == FALSE
EnvThrows(v, e) == MissingAt(v, e) # {}

\* createConfigFromEnv: the error it throws, or the configuration it returns
createConfigFromEnv(v, e) ==
    IF EnvThrows(v, e)
    THEN [ok |-> FALSE,
          error |-> ConfigError(Required(v)[FirstMissing(v, e)])]
    ELSE [ok |-> TRUE,
          config |->
            LET numbers ==
                  [apiVersion |-> Some(EnvNumber(e, "JIRA_API_VERSION", DEFAULT_CONFIG.apiVersion)),
                   timeout |-> Some(EnvNumber(e, "JIRA_REQUEST_TIMEOUT", DEFAULT_CONFIG.timeout))]
            IN  IF v = "token"
                THEN ObjectOf([baseUrl |-> EnvVar(e, "JIRA_BASE_URL"),
                               token |-> EnvVar(e, "JIRA_TOKEN"),
                               apiVersion |-> numbers.apiVersion,
                               timeout |-> numbers.timeout])
                ELSE ObjectOf([baseUrl |-> EnvVar(e, "JIRA_BASE_URL"),
                               email |-> EnvVar(e, "JIRA_EMAIL"),
                               apiToken |-> EnvVar(e, "JIRA_API_TOKEN"),
                               apiVersion |-> numbers.apiVersion,
                               timeout |-> numbers.timeout])]

\* faulty variant of Coalesce: x || dflt, which also replaces 0
CoalesceFalsy(x, dflt) == IF IsSome(x) /\ Get(x) # 0 THEN Get(x) ELSE dflt
\* x ?? dflt
Coalesce(x, dflt) == IF IsSome(x) THEN Get(x) ELSE dflt

\* createConfig: the fields the version keeps, with the defaults applied
createConfig(v, config) ==
    LET apiVersion == Some(Coalesce(Field(config, "apiVersion"), DEFAULT_CONFIG.apiVersion))
        timeout == Some(Coalesce(Field(config, "timeout"), DEFAULT_CONFIG.timeout))
    IN  IF v = "token"
        THEN ObjectOf([baseUrl |-> Field(config, "baseUrl"),
                       token |-> Field(config, "token"),
                       apiVersion |-> apiVersion, timeout |-> timeout])
        ELSE ObjectOf([baseUrl |-> Field(config, "baseUrl"),
                       email |-> Field(config, "email"),
                       apiToken |-> Field(config, "apiToken"),
                       apiVersion |-> apiVersion, timeout |-> timeout])

\* `${x}` in a template string: undefined prints as 'undefined'
Str(x) == IF IsSome(x) THEN Get(x) ELSE "undefined"

\* Buffer.from(`${email}:${token}`).toString('base64'), kept symbolic: the
\* encoding is injective and is told apart from the text it encodes
Base64(email, token) == <<"base64(", Str(email), ":", Str(token), ")">>

\* createAxiosInstance: the options handed to axios.create
createAxiosInstance(config) ==
    LET email == Field(config, "email")
        token == Field(config, "token")
    IN  [baseURL |-> <<Str(Field(config, "baseUrl")), "/rest/api/", config.apiVersion>>,
         timeout |-> config.timeout,
         headers |->
            [Authorization |-> IF Truthy(email)
                               THEN <<"Basic ">> \o Base64(email, token)
                               ELSE <<"Bearer ", Str(token)>>,
             ContentType |-> "application/json",
             Accept |-> "application/json"]]

\* new BaseApiClient(config): createConfig, then createAxiosInstance
BaseApiClient(v, config) == createAxiosInstance(createConfig(v, config))

ResourceClients == <<"issues", "projects", "users">>

\* the configurations a caller hands to the constructor
ConfigInputs ==
    {ObjectOf([baseUrl |-> Some("https://jira.example"), token |-> t, email |-> m,
               apiToken |-> a, apiVersion |-> n, timeout |-> d]) :
        t \in Optional({"tok"}), m \in Optional({"", "me@x.io"}),
        a \in Optional({"apitok"}), n \in Optional({0, 2}), d \in Optional({0, 5000})}

\* new JiraClient(config): the three resource clients are built in order
Construct(v, config) ==
    /\ variant' = v
    /\ configArg' = Some(config)
    /\ instances' = [i \in 1..Len(ResourceClients) |-> BaseApiClient(v, config)]
    /\ cpc' = "constructed"
    /\ cThrown' = None

NewJiraClient ==
    /\ cpc = "idle"
    /\ \E v \in ConfigVariants, config \in ConfigInputs :
        /\ Construct(v, config)
        /\ env' = env
    /\ UNCHANGED <<pageVars, transVars, httpVars, opVars, runVars>>

\* JiraClient.fromEnv(): createConfigFromEnv returns and the client is built
FromEnvConstructs ==
    /\ cpc = "idle"
    /\ \E v \in ConfigVariants, e \in EnvInputs :
        /\ createConfigFromEnv(v, e).ok
        /\ env' = e
        /\ Construct(v, createConfigFromEnv(v, e).config)
    /\ UNCHANGED <<pageVars, transVars, httpVars, opVars, runVars>>

\* JiraClient.fromEnv(): createConfigFromEnv throws, no client is built
FromEnvThrows ==
    /\ cpc = "idle"
    /\ \E v \in ConfigVariants, e \in EnvInputs :
        /\ ~createConfigFromEnv(v, e).ok
        /\ env' = e
        /\ variant' = v
        /\ cThrown' = Some(createConfigFromEnv(v, e).error)
        /\ cpc' = "failed"
        /\ UNCHANGED <<configArg, instances>>
    /\ UNCHANGED <<pageVars, transVars, httpVars, opVars, runVars>>

NextConfig ==
    \/ NewJiraClient
    \/ FromEnvConstructs
    \/ FromEnvThrows

SpecConfig == Init /\ [][NextConfig]_vars

\* ---------------------------------------------------------- construction claims

\* the configuration the constructor was given
Given == Get(configArg)

\* C13: a client built from a configuration with an email and a token sends
\* 'Basic ' + base64(email:token); one built from a token and no email sends
\* 'Bearer ' + token
C13_AuthSelectedByEmail ==
    (cpc = "constructed" /\ "token" \in DOMAIN Given) =>
        \A i \in 1..Len(instances) :
            instances[i].headers.Authorization =
                IF "email" \in DOMAIN Given /\ Given.email # ""
                THEN <<"Basic ", "base64(", Given.email, ":", Given.token, ")">>
                ELSE <<"Bearer ", Given.token>>

\* the variables the build's createConfigFromEnv cannot do without
C14_RequiredVars ==
    IF variant = "token" THEN {"JIRA_BASE_URL", "JIRA_TOKEN"}
    ELSE {"JIRA_BASE_URL", "JIRA_EMAIL", "JIRA_API_TOKEN"}

C14_Missing == {n \in C14_RequiredVars : n \notin DOMAIN env \/ env[n] = ""}

\* the client was built by fromEnv
ViaEnv == cpc = "constructed" /\ DOMAIN env # {}

\* C14: fromEnv throws a configuration error and builds no client when a
\* required variable is absent or empty; otherwise the configuration carries
\* the variables' values, with apiVersion 3 and timeout 30000 when unset
C14_EnvFailsFast ==
    /\ cpc = "failed" =>
        /\ C14_Missing # {}
        /\ instances = <<>> /\ configArg = None
        /\ IsSome(cThrown) /\ Get(cThrown).name = "Error"
        /\ \E n \in C14_Missing :
              Get(cThrown).message = <<n, " environment variable is required">>
    /\ ViaEnv =>
        /\ C14_Missing = {}
        /\ cThrown = None
        /\ Given.baseUrl = env["JIRA_BASE_URL"]
        /\ variant = "token" => Given.token = env["JIRA_TOKEN"]
        /\ variant = "emailApiToken" =>
              Given.email = env["JIRA_EMAIL"] /\ Given.apiToken = env["JIRA_API_TOKEN"]
        /\ "JIRA_API_VERSION" \notin DOMAIN env => Given.apiVersion = 3
        /\ "JIRA_REQUEST_TIMEOUT" \notin DOMAIN env => Given.timeout = 30000

C14_Witness ==
    /\ cpc = "failed"
    /\ variant = "token"
    /\ DOMAIN env = {"JIRA_BASE_URL", "JIRA_TOKEN"}
    /\ env["JIRA_BASE_URL"] # "" /\ env["JIRA_TOKEN"] = ""
    /\ instances = <<>>

\* C15: a constructed client holds three transport instances, each with
\* baseURL = baseUrl + '/rest/api/' + apiVersion and the configured timeout;
\* apiVersion is 3 and timeout 30000 when not supplied, a supplied value is kept
C15_ThreeInstances ==
    cpc = "constructed" =>
        /\ Len(instances) = 3
        /\ \A i \in 1..Len(instances) :
            /\ instances[i].baseURL =
                  <<Given.baseUrl, "/rest/api/",
                    IF "apiVersion" \in DOMAIN Given THEN Given.apiVersion ELSE 3>>
            /\ instances[i].timeout =
                  IF "timeout" \in DOMAIN Given THEN Given.timeout ELSE 30000

C15_Witness ==
    /\ cpc = "constructed"
    /\ DOMAIN env = {}
    /\ "apiVersion" \notin DOMAIN Given
    /\ "timeout" \in DOMAIN Given /\ Given.timeout = 0
    /\ Len(instances) = 3
    /\ instances[3].timeout = 0
    /\ instances[3].baseURL = <<"https://jira.example", "/rest/api/", 3>>

\* what a caller can tell of an error without reading its message: its name
\* (the class it was built from) and the fields it carries
Kind(error) == [name |-> error.name, fields |-> DOMAIN error \ {"message"}]

\* the errors createConfigFromEnv raises
ConfigErrors ==
    UNION {{ConfigError(Required(v)[i]) : i \in 1..Len(Required(v))} : v \in ConfigVariants}

\* C12: an error raised by transitionIssue is a normalized error object, and
\* its kind differs from the kind of every configuration error; the lookup
\* error's kind also differs from the kind of a remote-call rejection
C12_KindsDistinct ==
    tpc = "failed" =>
        /\ isJiraError(Get(tThrown))
        /\ \A c \in ConfigErrors : Kind(Get(tThrown)) # Kind(c)

\* ------------------------------------- the operations of the resource clients

Request(method, url) == [method |-> method, url |-> url]

\* every public operation but transitionIssue: the one call in its body
OperationTable ==
    [getIssue |-> Request("GET", <<"/issue/", "issueIdOrKey">>),
     createIssue |-> Request("POST", <<"/issue">>),
     updateIssue |-> Request("PUT", <<"/issue/", "issueIdOrKey">>),
     deleteIssue |-> Request("DELETE", <<"/issue/", "issueIdOrKey">>),
     searchIssues |-> Request("POST", <<"/search">>),
     getTransitions |-> Request("GET", <<"/issue/", "issueIdOrKey", "/transitions">>),
     getComments |-> Request("GET", <<"/issue/", "issueIdOrKey", "/comment">>),
     addComment |-> Request("POST", <<"/issue/", "issueIdOrKey", "/comment">>),
     updateComment |-> Request("PUT", <<"/issue/", "issueIdOrKey", "/comment/", "commentId">>),
     deleteComment |-> Request("DELETE", <<"/issue/", "issueIdOrKey", "/comment/", "commentId">>),
     assignIssue |-> Request("PUT", <<"/issue/", "issueIdOrKey", "/assignee">>),
     getAllProjects |-> Request("GET", <<"/project">>),
     getProject |-> Request("GET", <<"/project/", "projectIdOrKey">>),
     getProjectIssueTypes |-> Request("GET", <<"/project/", "projectIdOrKey", "/issueTypes">>),
     getProjectComponents |-> Request("GET", <<"/project/", "projectIdOrKey", "/components">>),
     getProjectVersions |-> Request("GET", <<"/project/", "projectIdOrKey", "/versions">>),
     getProjectStatuses |-> Request("GET", <<"/project/", "projectIdOrKey", "/statuses">>),
     searchProjects |-> Request("GET", <<"/project/search">>),
     getCurrentUser |-> Request("GET", <<"/myself">>),
     getUser |-> Request("GET", <<"/user">>),
     searchUsers |-> Request("GET", <<"/user/search">>),
     getAssignableUsers |-> Request("GET", <<"/user/assignable/search">>)]

SimpleOperations == DOMAIN OperationTable

\* faulty variant of Send: the request goes out twice
SendTwice(request) == <<request, request>>
\* this.get / this.post / this.put / this.delete: one call of the axios instance
Send(request) == <<request>>

\* an operation up to its await: the request is sent
CallOperation ==
    /\ opc = "idle"
    /\ tpc = "idle"
    /\ \E name \in SimpleOperations :
        /\ operation' = name
        /\ oRequests' = oRequests \o Send(OperationTable[name])
    /\ opc' = "waiting"
    /\ UNCHANGED <<pageVars, transVars, httpVars, cfgVars, runVars>>

\* the call resolves: the operation returns the (reshaped) answer
OperationResolves ==
    /\ opc = "waiting"
    /\ opc' = "done"
    /\ UNCHANGED <<operation, oRequests>>
    /\ UNCHANGED <<pageVars, transVars, httpVars, cfgVars, runVars>>

\* the call rejects: the operation throws
OperationRejects ==
    /\ opc = "waiting"
    /\ opc' = "failed"
    /\ UNCHANGED <<operation, oRequests>>
    /\ UNCHANGED <<pageVars, transVars, httpVars, cfgVars, runVars>>

\* transitionIssue is invoked instead of one of the other operations
CallTransitionOperation ==
    /\ opc = "idle"
    /\ CallTransitionIssue

NextOps ==
    \/ CallOperation
    \/ OperationResolves
    \/ OperationRejects
    \/ CallTransitionOperation
    \/ GetResolves
    \/ GetRejects
    \/ PostResolves
    \/ PostRejects

SpecOps == Init /\ [][NextOps]_vars

\* -------------------------------------------------------------- operation claims

Finished(p) == p \in {"done", "failed"}

\* C16 as stated: every finished invocation of a public operation, transitionIssue
\* included, has made exactly one outbound HTTP call
C16_OneCallEach ==
    /\ Finished(opc) => Len(oRequests) = 1
    /\ Finished(tpc) => Len(requests) = 1

\* C16: every public operation but transitionIssue makes exactly one outbound
\* call per invocation; transitionIssue makes one GET and then, exactly when a
\* transition matched, one POST
C16_OneCallExceptTransition ==
    /\ opc # "idle" => Len(oRequests) = 1 /\ oRequests[1] = OperationTable[operation]
    /\ tpc # "idle" => Len(requests) \in {1, 2} /\ requests[1].method = "GET"
    /\ Finished(tpc) /\ IsSome(transitions) =>
          (Len(requests) = 2) =
              (\E k \in 1..Len(Get(transitions)) :
                    Get(transitions)[k].id = transitionIdOrName
                 \/ Get(transitions)[k].name = transitionIdOrName)
    /\ Len(requests) = 2 => requests[2].method = "POST"

C16_Witness ==
    /\ opc = "done" /\ operation = "assignIssue" /\ Len(oRequests) = 1

\* ------------------------------------------------------------- cursor claims

\* C17: createPaginationParams() and createPaginationParams({}) return
\* {startAt: 0, maxResults: 50} in every state, whatever runs came before (the
\* shared DEFAULT_PAGINATION is never written), and a supplied startAt or
\* maxResults is returned unchanged
C17_DefaultsStable ==
    /\ DEFAULT_PAGINATION = [maxResults |-> 50, startAt |-> 0]
    /\ createPaginationParams(None) = [maxResults |-> 50, startAt |-> 0]
    /\ createPaginationParams(Some(ParamObject(None, None))) = [maxResults |-> 50, startAt |-> 0]
    /\ \A s \in Optional(StartAtInputs), m \in Optional(MaxResultsInputs) :
          LET cursor == createPaginationParams(Some(ParamObject(s, m)))
          IN  /\ cursor.startAt = IF IsSome(s) THEN Get(s) ELSE 0
              /\ cursor.maxResults = IF IsSome(m) THEN Get(m) ELSE 50

\* a run without params has advanced its cursor twice and returned
C17_Witness ==
    /\ pc = "returned" /\ op = "fetchAllPages"
    /\ callerParams = None
    /\ Len(calls) = 3
    /\ paginationParams.startAt = 100
    /\ createPaginationParams(None).startAt = 0

\* C18: every cursor createPaginationParams produces, and every cursor
\* fetchAllPages passes to fetchPage, has maxResults >= 1
C18_PageSizePositive ==
    /\ pc # "idle" => createPaginationParams(callerParams).maxResults >= 1
    /\ op = "fetchAllPages" => \A i \in 1..Len(calls) : calls[i].maxResults >= 1

\* C19: a page returned by a bare-list operation for a request with
\* startAt >= 0 has total = values.length and isLast = true
C19_BareListIsLast ==
    source \in BareListOps =>
        \A i \in 1..Len(fetched) :
            calls[i].startAt >= 0 =>
                /\ fetched[i].total = Len(fetched[i].values)
                /\ fetched[i].isLast

\* searchUsers called directly with startAt 2, the upstream answers the empty list
C19_Witness ==
    /\ op = "listing" /\ source = "searchUsers" /\ pc = "returned"
    /\ calls[1].startAt = 2
    /\ fetched[1].values = <<>>
    /\ fetched[1].total = 0 /\ fetched[1].isLast

\* ---------------------------------------- two interleaved runs of fetchAllPages

\* two invocations fetchAllPages(p => client.issues.searchIssues(jql, p), params)
\* on one client, against one static upstream; each has its own locals, and the
\* event loop interleaves them at their awaits

ConcurrentParams ==
    {None} \cup {Some(ParamObject(s, m)) : s \in Optional({1}), m \in Optional({1, 2})}

\* the cursor object of run r, read through the reference the run holds
RunCursor(r) ==
    IF CursorObject(runs[r].params) = "default" THEN DEFAULT_PAGINATION
    ELSE runs[r].cursor

\* fetchAllPages up to its first await (lines 57-62), for run r
StartRun(r) ==
    /\ runs[r].pc = "idle"
    /\ \E params \in ConcurrentParams, srv \in StaticServers :
        /\ cServer.kind = "static" => srv = cServer
        /\ cServer' = srv
        /\ runs' = [runs EXCEPT ![r] =
                      [pc |-> "awaiting", params |-> params,
                       cursor |-> createPaginationParams(params),
                       results |-> <<>>,
                       calls |-> <<createPaginationParams(params)>>,
                       fetched |-> <<>>, returned |-> None]]
    /\ UNCHANGED <<pageVars, transVars, httpVars, cfgVars, opVars>>

\* the await of line 62 resolves for run r: lines 63-69, then the loop test and
\* either the next fetchPage call or the return
RunPageResolves(r) ==
    /\ runs[r].pc = "awaiting"
    /\ LET request == runs[r].calls[Len(runs[r].calls)]
           response == searchIssues(StaticAnswer(cServer, ListingRequest(Some(request))),
                                    Some(request))
           acc == Push(runs[r].results, response.values)
           cursor == IF ~response.isLast THEN NextCursor(RunCursor(r)) ELSE RunCursor(r)
       IN  /\ DEFAULT_PAGINATION' = WriteThrough(CursorObject(runs[r].params), cursor)
           /\ IF LoopContinues(response.isLast)
              THEN /\ Len(runs[r].calls) < MaxFetches
                   /\ runs' = [runs EXCEPT ![r].results = acc,
                                           ![r].fetched = Append(@, response),
                                           ![r].cursor = cursor,
                                           ![r].calls = Append(@, cursor)]
              ELSE runs' = [runs EXCEPT ![r].results = acc,
                                        ![r].fetched = Append(@, response),
                                        ![r].cursor = cursor,
                                        ![r].pc = "returned",
                                        ![r].returned = Some(acc)]
    /\ UNCHANGED <<pc, op, source, server, callerParams, paginationParams, results, isLast,
                   calls, inflight, upstream, fetched, returned, thrown, failure>>
    /\ UNCHANGED <<cServer, transVars, httpVars, cfgVars, opVars>>

NextConcurrent ==
    \/ \E r \in RunIds : StartRun(r)
    \/ \E r \in RunIds : RunPageResolves(r)

SpecConcurrent == Init /\ [][NextConcurrent]_vars

\* ------------------------------------------------------------ concurrency claim

\* the cursor a run alone starts from
SoloCursor(params) ==
    [maxResults |-> IF IsSome(params) /\ "maxResults" \in DOMAIN Get(params)
                    THEN Get(params).maxResults ELSE 50,
     startAt |-> IF IsSome(params) /\ "startAt" \in DOMAIN Get(params)
                 THEN Get(params).startAt ELSE 0]

\* the page the source serves for a cursor
SoloPage(srv, cursor) == searchIssues(StaticAnswer(srv, cursor), Some(cursor))

RECURSIVE Solo(_, _, _, _, _)
\* a run alone against srv: the cursors it sends and what it returns, cut off
\* after fuel fetches
Solo(srv, cursor, sent, acc, fuel) ==
    LET page == SoloPage(srv, cursor)
        now == Append(sent, cursor)
    IN  IF page.isLast
        THEN [calls |-> now, returned |-> Some(acc \o page.values)]
        ELSE IF fuel = 1
        THEN [calls |-> now, returned |-> None]
        ELSE Solo(srv, [cursor EXCEPT !.startAt = cursor.startAt + cursor.maxResults],
                  now, acc \o page.values, fuel - 1)

Alone(r) == Solo(cServer, SoloCursor(runs[r].params), <<>>, <<>>, MaxFetches)

\* C20: however two runs of fetchAllPages on one client are interleaved, each
\* sends the cursors and returns the result it would alone against the source
C20_RunsIndependent ==
    \A r \in RunIds :
        runs[r].pc # "idle" =>
            /\ Len(runs[r].calls) <= Len(Alone(r).calls)
            /\ runs[r].calls = SubSeq(Alone(r).calls, 1, Len(runs[r].calls))
            /\ runs[r].pc = "returned" =>
                  /\ runs[r].calls = Alone(r).calls
                  /\ runs[r].returned = Alone(r).returned

\* two runs without params: the second has fetched two pages and returned
\* while the first still awaits its second page
C20_Witness ==
    /\ runs[1].pc = "awaiting" /\ Len(runs[1].calls) = 2
    /\ runs[2].pc = "returned" /\ Len(runs[2].calls) = 2
    /\ runs[1].params = None /\ runs[2].params = None
    /\ Len(Get(runs[2].returned)) > 0

\* ------------------------------------------------------- cursor advance claims

\* the normalized initial cursor of the run, from the caller's params
InitialCursor ==
    [startAt |-> IF IsSome(callerParams) /\ "startAt" \in DOMAIN Get(callerParams)
                 THEN Get(callerParams).startAt ELSE 0,
     maxResults |-> IF IsSome(callerParams) /\ "maxResults" \in DOMAIN Get(callerParams)
                    THEN Get(callerParams).maxResults ELSE 50]

\* C21: the k-th fetchPage call of a run carries startAt = s + (k-1)*m and
\* maxResults = m, (s, m) being the normalized initial cursor, whatever the
\* number of items the pages before it held
C21_CursorArithmetic ==
    op = "fetchAllPages" =>
        \A k \in 1..Len(calls) :
            /\ calls[k].startAt = InitialCursor.startAt + (k - 1) * InitialCursor.maxResults
            /\ calls[k].maxResults = InitialCursor.maxResults

\* a third call after two pages that held fewer items than maxResults
C21_Witness ==
    /\ op = "fetchAllPages" /\ Len(calls) = 3 /\ Len(fetched) >= 2
    /\ InitialCursor = [startAt |-> 1, maxResults |-> 3]
    /\ Len(fetched[1].values) = 0 /\ Len(fetched[2].values) = 2
    /\ calls[3] = [startAt |-> 7, maxResults |-> 3]

\* ------------------------------------------ operations on a constructed client

\* the operations invoked on the client: of each resource client, and of each verb
ClientOperations == {"getIssue", "createIssue", "assignIssue", "deleteIssue",
                     "getProject", "searchUsers"}

\* the resource client (its place in ResourceClients) an operation belongs to
ClientOf(name) ==
    IF name \in {"getProject"} THEN 2
    ELSE IF name \in {"searchUsers"} THEN 3
    ELSE 1

\* the request the axios instance sends for an operation: the instance's
\* defaults merged with the operation's method and url
Effective(instance, request) ==
    [method |-> request.method, url |-> request.url,
     baseURL |-> instance.baseURL, timeout |-> instance.timeout,
     Authorization |-> instance.headers.Authorization]

\* faulty variant of InstanceAfter: the request's url is written into the defaults
InstanceAfterLeaks(instance, request) == [instance EXCEPT !.baseURL = request.url]
\* the axios instance after this.client.get/post/put/delete(url, ...): the
\* operations hand it a url and a per-request object and write nothing to it
InstanceAfter(instance, request) == instance

\* an operation of the constructed client up to its await
ClientCall ==
    /\ cpc = "constructed"
    /\ opc = "idle"
    /\ Len(oRequests) < MaxCalls
    /\ \E name \in ClientOperations :
        LET i == ClientOf(name)
            request == OperationTable[name]
        IN  /\ operation' = name
            /\ oRequests' = oRequests \o Send(Effective(instances[i], request))
            /\ instances' = [instances EXCEPT ![i] = InstanceAfter(@, request)]
    /\ opc' = "waiting"
    /\ UNCHANGED <<cpc, variant, env, configArg, cThrown>>
    /\ UNCHANGED <<pageVars, transVars, httpVars, runVars>>

\* the operation is over, with a value or an error; the client stays in use
ClientCallEnds ==
    /\ cpc = "constructed"
    /\ opc \in {"done", "failed"}
    /\ opc' = "idle"
    /\ UNCHANGED <<operation, oRequests>>
    /\ UNCHANGED <<pageVars, transVars, httpVars, cfgVars, runVars>>

NextClient ==
    \/ NewJiraClient
    \/ FromEnvConstructs
    \/ FromEnvThrows
    \/ ClientCall
    \/ OperationResolves
    \/ OperationRejects
    \/ ClientCallEnds

SpecClient == Init /\ [][NextClient]_vars

\* C22: whatever operations ran on a constructed client and however they
\* ended, its three instances hold the base URL, Authorization header, API
\* version and timeout that construction gave them, and every request went out
\* with them
C22_TransportFixed ==
    cpc = "constructed" =>
        /\ \A i \in 1..Len(instances) : instances[i] = BaseApiClient(variant, Given)
        /\ \A k \in 1..Len(oRequests) :
            /\ oRequests[k].baseURL = BaseApiClient(variant, Given).baseURL
            /\ oRequests[k].timeout = BaseApiClient(variant, Given).timeout
            /\ oRequests[k].Authorization = BaseApiClient(variant, Given).headers.Authorization

\* a second operation has failed after a first one on the same client
C22_Witness ==
    /\ cpc = "constructed" /\ opc = "failed"
    /\ Len(oRequests) = 2
    /\ oRequests[1].method = "POST" /\ oRequests[2].method = "DELETE"
    /\ instances[1].timeout = 5000

\* -------------------------------------------- transitionIssue, invoked repeatedly

\* the invocation is over and its locals are gone; the answer of its GET stays
\* on record as what a cache could hold: nothing in the client refers to it
TransitionReturns ==
    /\ tpc \in {"done", "failed"}
    /\ tpc' = "idle"
    /\ issueIdOrKey' = ""
    /\ transitionIdOrName' = ""
    /\ requests' = <<>>
    /\ tThrown' = None
    /\ UNCHANGED transitions
    /\ UNCHANGED <<pageVars, httpVars, cfgVars, opVars, runVars>>

NextRepeat ==
    \/ CallTransitionIssue
    \/ GetResolves
    \/ GetRejects
    \/ PostResolves
    \/ PostRejects
    \/ TransitionReturns

SpecRepeat == Init /\ [][NextRepeat]_vars

\* some entry of the list has x as its id or as its name
HasMatch(list, x) == \E k \in 1..Len(list) : list[k].id = x \/ list[k].name = x

GetOf(key) == [method |-> "GET", url |-> <<"/issue/", key, "/transitions">>, body |-> None]

\* the invocation's requests in every state: the GET first, a POST only second
\* and only for a transition of the list the GET answered
C23_Order ==
    /\ tpc # "idle" =>
        /\ Len(requests) \in {1, 2}
        /\ requests[1] = GetOf(issueIdOrKey)
    /\ tpc = "getting" => Len(requests) = 1
    /\ Len(requests) = 2 =>
        /\ requests[2].method = "POST"
        /\ IsSome(transitions) /\ HasMatch(Get(transitions), transitionIdOrName)
        /\ \E k \in 1..Len(Get(transitions)) : requests[2].body = Some(Get(transitions)[k].id)
    /\ tpc = "failed" => IsSome(tThrown)

\* the steps of an invocation: it starts with the GET even when an earlier
\* answer exists, the POST is sent at the moment the GET resolves, and a GET
\* that rejects ends the invocation with a JiraError and no POST
C23_Steps ==
    /\ (tpc = "idle" /\ tpc' # "idle") =>
            tpc' = "getting" /\ requests' = <<GetOf(issueIdOrKey')>>
    /\ (Len(requests') = 2 /\ Len(requests) = 1) =>
            /\ tpc = "getting"
            /\ IsSome(transitions')
            /\ HasMatch(Get(transitions'), transitionIdOrName)
    /\ (tpc = "getting" /\ tpc' = "failed" /\ isJiraError(Get(tThrown'))) =>
            requests' = requests /\ transitions' = transitions

\* C23: every transitionIssue invocation first sends a GET of the issue's
\* transitions, whatever earlier invocations received; the POST is sent only
\* after that GET resolved with a list holding a match; a GET that fails raises
\* the normalized error and no POST is sent
C23_FreshGetThenPost == []C23_Order /\ [][C23_Steps]_vars

\* a later invocation awaits its own GET although an earlier answer exists
C23_Witness ==
    /\ tpc = "getting" /\ IsSome(transitions)
    /\ requests = <<GetOf(issueIdOrKey)>>

\* ------------------------------------------------------ error normalisation claims

\* the list a body field holds, empty when the field is missing
ListOf(body, field) == IF field \in DOMAIN body THEN body[field] ELSE <<>>

\* C24: a failure whose body has no errorMessages entry but field errors is
\* thrown with message '<first field>: <its message>', errors = the field
\* errors and errorMessages empty; with neither, the message is the transport
\* error's own
C24_FieldErrorSummary ==
    (HasBody /\ Len(ListOf(Body, "errorMessages")) = 0) =>
        /\ IsSome(hThrown) /\ isJiraError(Get(hThrown))
        /\ Get(hThrown).errorMessages = <<>>
        /\ Get(hThrown).errors = ListOf(Body, "errors")
        /\ Get(hThrown).message =
              IF Len(ListOf(Body, "errors")) > 0
              THEN <<Body.errors[1].field, ": ", Body.errors[1].message>>
              ELSE Get(rawError).message

C24_Witness ==
    /\ HasBody
    /\ Body = BodyObject(None, Some(<< FieldError("project", "invalid"),
                                       FieldError("summary", "required") >>))
    /\ Get(hThrown).message = <<"project", ": ", "invalid">>
    /\ Len(Get(hThrown).errors) = 2
    /\ Get(hThrown).errorMessages = <<>>

\* C25: the thrown error's status is the response's status when there is a
\* response and 500 otherwise; without a response body errors and
\* errorMessages are empty
C25_StatusDefault ==
    hpc = "failed" =>
        /\ Get(hThrown).status =
              IF IsSome(Get(rawError).response) THEN Get(Get(rawError).response).status
              ELSE 500
        /\ ~HasBody => Get(hThrown).errors = <<>> /\ Get(hThrown).errorMessages = <<>>

C25_Witness ==
    /\ hpc = "failed"
    /\ Get(rawError).kind = "axios" /\ Get(rawError).response = None
    /\ Get(hThrown).status = 500
    /\ Get(hThrown).errors = <<>> /\ Get(hThrown).errorMessages = <<>>
    /\ Get(hThrown).message = Get(rawError).message

\* -------------------------------------------------------------- lifecycle claim

\* every state of a call: one attempt, and at its end either a value or a
\* JiraError, never both
C26_Outcome ==
    /\ hpc \in {"idle", "issued", "succeeded", "failed"}
    /\ hpc = "idle" => attempts = 0
    /\ hpc # "idle" => attempts = 1
    /\ hpc = "issued" => hValue = None /\ hThrown = None
    /\ hpc = "succeeded" => IsSome(hValue) /\ hThrown = None
    /\ hpc = "failed" => IsSome(hThrown) /\ isJiraError(Get(hThrown)) /\ hValue = None

\* every step of a call: issued is left only for succeeded or failed, and an
\* ended call changes no more
C26_Steps ==
    /\ hpc = "issued" => hpc' \in {"issued", "succeeded", "failed"}
    /\ hpc \in {"succeeded", "failed"} => UNCHANGED httpVars

\* C26: a call is attempted once, is not issued again after a failure, ends as
\* succeeded with a value or as failed with a JiraError, and keeps that outcome
C26_OneShot == []C26_Outcome /\ [][C26_Steps]_vars

C26_Witness ==
    /\ hpc = "failed" /\ verb = "put" /\ attempts = 1
    /\ isJiraError(Get(hThrown)) /\ hValue = None

\* --------------------------------------------------------- listing page claims

\* C27: searchIssues and getComments send the normalized request cursor and
\* return a page with the request's startAt and maxResults, the upstream's
\* values and total, and isLast = request startAt + values.length >= total
C27_RequestCursorKept ==
    (op = "listing" /\ source \in {"searchIssues", "getComments"} /\ pc # "idle") =>
        /\ calls = <<InitialCursor>>
        /\ pc = "returned" =>
            /\ Get(returned) = fetched[1]
            /\ fetched[1].startAt = InitialCursor.startAt
            /\ fetched[1].maxResults = InitialCursor.maxResults
            /\ fetched[1].values = upstream[1].values
            /\ fetched[1].total = upstream[1].total
            /\ fetched[1].isLast =
                  (InitialCursor.startAt + Len(upstream[1].values) >= upstream[1].total)

\* the upstream answered a startAt and a maxResults other than the request's
C27_Witness ==
    /\ op = "listing" /\ source = "searchIssues" /\ pc = "returned"
    /\ InitialCursor = [startAt |-> 2, maxResults |-> 3]
    /\ upstream[1].startAt = 0 /\ upstream[1].maxResults = 1
    /\ fetched[1].startAt = 2 /\ fetched[1].maxResults = 3
    /\ fetched[1].values = <<1, 2>> /\ fetched[1].total = 3
    /\ fetched[1].isLast

\* C28: a run of fetchAllPages over getAllProjects, searchUsers or
\* getAssignableUsers, started at a startAt >= 0, makes one fetch and returns
\* the batch that fetch held, however many items the upstream holds beyond it
C28_BareListOneFetch ==
    (op = "fetchAllPages" /\ source \in BareListOps /\ InitialCursor.startAt >= 0) =>
        /\ Len(calls) = 1
        /\ pc = "returned" =>
            /\ Len(upstream) = 1
            /\ returned = Some(upstream[1].values)

\* the upstream holds four projects and serves one per request
C28_Witness ==
    /\ op = "fetchAllPages" /\ source = "getAllProjects" /\ pc = "returned"
    /\ server.kind = "static" /\ server.N = 4 /\ server.cap = 1
    /\ callerParams = None
    /\ Len(calls) = 1
    /\ returned = Some(<<1>>)

\* ------------------------------------------------------------ caller params claim

\* the fields the caller set hold what the first request was built from
C29_Agrees ==
    (pc # "idle" /\ IsSome(callerParams)) =>
        \A f \in DOMAIN Get(callerParams) : Get(callerParams)[f] = calls[1][f]

\* no step of a run or of a listing operation writes the caller's object
C29_Step == pc # "idle" /\ pc' # "idle" => callerParams' = callerParams

\* C29: fetchAllPages and the listing operations never write the params object
\* of the caller: during and after a run, returned or rejected, its startAt and
\* maxResults are the ones the caller set
C29_CallerParamsKept == []C29_Agrees /\ [][C29_Step]_vars

\* a run has advanced its own cursor twice and then failed
C29_Witness ==
    /\ op = "fetchAllPages" /\ pc = "rejected"
    /\ callerParams = Some([startAt |-> 1, maxResults |-> 2])
    /\ Len(calls) = 3
    /\ paginationParams = [startAt |-> 5, maxResults |-> 2]

\* ------------------------------------------------------------ capped page claim

\* a returned run over searchIssues against a static upstream that serves at
\* most cap < maxResults items per request, started at a startAt >= 0
Capped ==
    /\ IsFetchAll /\ source = "searchIssues" /\ pc = "returned"
    /\ server.kind = "static"
    /\ server.cap >= 1 /\ server.cap < InitialCursor.maxResults
    /\ InitialCursor.startAt >= 0

\* the 0-based index range [s + k*m, min(s + k*m + c, N)) of the collection
CappedRange(k) ==
    LET from == InitialCursor.startAt + k * InitialCursor.maxResults
    IN  Slice(Collection(server), from, Min(from + server.cap, server.N))

\* the first k whose range reaches the end of the collection
LastRange ==
    CHOOSE k \in 0..server.N :
        /\ InitialCursor.startAt + k * InitialCursor.maxResults + server.cap >= server.N
        /\ \A j \in 0..(k - 1) :
              InitialCursor.startAt + j * InitialCursor.maxResults + server.cap < server.N

CappedResult == Concat([k \in 1..(LastRange + 1) |-> CappedRange(k - 1)])

\* C30 as stated: the run returns the items of the ranges
\* [s + k*m, min(s + k*m + c, N)), and fewer than N - s items
C30_AlwaysShorter ==
    Capped =>
        /\ returned = Some(CappedResult)
        /\ Len(Get(returned)) < server.N - InitialCursor.startAt

\* C30: the run returns the items of the ranges [s + k*m, min(s + k*m + c, N))
\* up to the first range that reaches N; it returns fewer than N - s items
\* exactly when the first page was not the last one, that is when N > s + c
C30_CappedPages ==
    Capped =>
        /\ returned = Some(CappedResult)
        /\ Len(calls) = LastRange + 1
        /\ (Len(Get(returned)) < server.N - InitialCursor.startAt)
              = (server.N > InitialCursor.startAt + server.cap)

\* four items, two per request, maxResults 3: the item at index 2 is not fetched
C30_Witness ==
    /\ Capped
    /\ server.N = 4 /\ server.cap = 2
    /\ InitialCursor = [startAt |-> 0, maxResults |-> 3]
    /\ returned = Some(<<1, 2, 4>>)

====
